---- MODULE Spec2Model ----
(***************************************************************************)
(* State-machine model of src/indoorai_pi.py: the two-button control loop  *)
(* (wait_press, AccessibilityAssistant.run), the dispatcher (listen,       *)
(* capture, ask_text, ask_image) and the interruptible speech playback     *)
(* (speak, stop_speech).                                                   *)
(*                                                                         *)
(* Strings are sequences of tokens.  A token is one character class the    *)
(* code distinguishes: a sentence terminator ".", "!", "?", a whitespace   *)
(* character, or a run of other characters (a word), written as a string.  *)
(*                                                                         *)
(* Time is counted in tenths of a second.                                  *)
(***************************************************************************)
EXTENDS Integers, Sequences, FiniteSets, TLC

\* ------------------------------------------------------------ bounds
\* Longest press duration the clock distinguishes (saturates above HOLD_TIME).
MaxElapsed == 14
\* AI answers are all token strings of at most this length, plus FixedAnswers.
MaxTextLen == 2
\* How many announce_mode texts the announcement history keeps.
MaxLog == 5

\* ------------------------------------------------------------ program constants
BTN_MAIN == 17
BTN_BACK == 27
\* 1.2 s, in tenths of a second
HOLD_TIME == 12
\* time.sleep(0.3) after a playback is killed, in tenths of a second
CANCEL_SLEEP == 3

Pins == {BTN_MAIN, BTN_BACK}

\* Python's None, for the variables that hold a string or None.
None == <<"None">>

\* self.modes
modes == << <<"voice">>, <<"capture">>, <<"book">> >>

\* ------------------------------------------------------------ strings
Terminators == {".", "!", "?"}
Whitespace == {" ", "\n"}
Alphabet == {"a", " ", ".", "?"}

RECURSIVE TextsOfLen(_)
TextsOfLen(n) ==
    IF n = 0 THEN {<<>>}
    ELSE {Append(t, c) : t \in TextsOfLen(n - 1), c \in Alphabet}

\* The four-sentence answer of the playback scenario, a one-sentence answer
\* with inner whitespace, and an answer with surrounding whitespace.
FixedAnswers ==
    { <<"a", ".", " ", "b", "!", " ", "c", "?", " ", "d", ".">>,
      <<"It", " ", "is", " ", "three", " ", "o'clock", ".">>,
      <<" ", "a", " ", "b", " ", "?", " ", "!", "c", " ">> }

\* What the AI gateway may return as r.text.
Answers == UNION {TextsOfLen(n) : n \in 0..MaxTextLen} \cup FixedAnswers

\* What recognize_google(audio).lower() may return.
Transcripts == { <<"what", " ", "time", " ", "is", " ", "it">>, <<"hello">> }

\* text.replace('!', '.').replace('?', '.')
NormaliseMutant(t) == [i \in 1..Len(t) |-> IF t[i] = "!" THEN "." ELSE t[i]]
Normalise(t) == [i \in 1..Len(t) |-> IF t[i] \in {"!", "?"} THEN "." ELSE t[i]]

\* str.split(sep): the pieces between separators, empty pieces kept.
RECURSIVE SplitOn(_, _)
SplitOn(t, sep) ==
    IF \A i \in 1..Len(t) : t[i] # sep THEN <<t>>
    ELSE LET k == CHOOSE i \in 1..Len(t) :
                     t[i] = sep /\ \A j \in 1..(i - 1) : t[j] # sep
         IN  <<SubSeq(t, 1, k - 1)>> \o SplitOn(SubSeq(t, k + 1, Len(t)), sep)

\* str.strip()
RECURSIVE LStrip(_)
LStrip(s) ==
    IF s # <<>> /\ Head(s) \in Whitespace THEN LStrip(Tail(s)) ELSE s

RECURSIVE RStrip(_)
RStrip(s) ==
    IF s # <<>> /\ s[Len(s)] \in Whitespace
    THEN RStrip(SubSeq(s, 1, Len(s) - 1)) ELSE s

Strip(s) == RStrip(LStrip(s))

NonEmpty(s) == s # <<>>

\* sentences = [s.strip() for s in text...split('.') if s.strip()]
SplitSentencesMutant(t) ==
    LET parts == SplitOn(Normalise(t), ".")
    IN  [i \in 1..Len(parts) |-> Strip(parts[i])]
SplitSentences(t) ==
    LET parts == SplitOn(Normalise(t), ".")
    IN  SelectSeq([i \in 1..Len(parts) |-> Strip(parts[i])], NonEmpty)

\* Python truthiness of a str-or-None value.
Truthy(t) == t # None /\ t # <<>>

\* "hold" if time.time() - start > HOLD_TIME else "tap"
ClassifyMutant(dt) == IF dt >= HOLD_TIME THEN "hold" ELSE "tap"
Classify(dt) == IF dt > HOLD_TIME THEN "hold" ELSE "tap"

\* (self.mode_index + 1) % 3
NextModeIndexMutant(i) == (i + 2) % 3
NextModeIndex(i) == (i + 1) % 3

\* self.modes[self.mode_index] + " mode"   (modes is 0-indexed in the code)
AnnounceTextMutant(i) == modes[i + 1]
AnnounceText(i) == modes[i + 1] \o <<" ", "mode">>

\* "Assist a visually impaired person briefly.\n" + q
TextPromptMutant(q) == <<"Assist a visually impaired person briefly.", "\n">>
TextPrompt(q) == <<"Assist a visually impaired person briefly.", "\n">> \o q

\* prompts[mode] of ask_image
ImagePrompt(mode) ==
    IF mode = <<"capture">> THEN <<"List objects briefly.">>
    ELSE <<"Read all visible text.">>

\* ------------------------------------------------------------ state
VARIABLES
    gpio,            \* level of each input pin: "HIGH" or "LOW"
    gpio_setup,      \* the input channels are set up (GPIO.setup .. GPIO.cleanup)
    pc,              \* position of the single thread of control
    pin,             \* wait_press: its argument
    elapsed,         \* wait_press: time.time() - start
    pressed,         \* wait_press: its latest return value
    interrupt_flag,  \* global interrupt_flag
    speech_process,  \* global speech_process: "None" or "espeak" (the handle)
    text,            \* speak: its argument (kept until the loop iteration ends)
    sentences,       \* speak: the list of sentences
    idx,             \* speak: position of the for loop in sentences
    speakRet,        \* speak: where it returns to
    result,          \* speak: its latest return value
    espeak,          \* the espeak worker: "none", "running", "done", "killed"
    aplay,           \* the aplay worker: "none", "running", "done", "killed"
    camera,          \* self.camera: "unset", "None", "open", "released"
    mode_index,      \* self.mode_index (-1 before __init__ assigns it)
    action,          \* run: action
    transcript,      \* run: text (the result of listen)
    img,             \* run: img (the result of capture)
    ans,             \* run: ans
    op,              \* history: what this loop iteration does
    aiCalls,         \* history: gateway calls issued in this loop iteration
    prompt,          \* history: the prompt of the latest gateway call
    opSpeaks,        \* history: the texts passed to speak in this iteration
    played,          \* history: sentences whose playback this speak call started
    outcome,         \* history: how the latest speak call ended
    announced,       \* history: the first MaxLog texts announce_mode spoke
    backBegan,       \* history: what the program was doing when the Back press
                     \* now held began: "idle", "busy", "other"; else "none"
    mainLead,        \* history: time the Main press now held (or just
                     \* classified) is known to have lasted before wait_press
                     \* saw it: the sleep of a cancelled playback, or 0
    desk             \* the desktop variant (assistive_ai.py): a record of its
                     \* assistant's fields, the locals of the running handler,
                     \* its position and the history of the current command

\* The variables of indoorai_pi.py.
piVars == <<gpio, gpio_setup, pc, pin, elapsed, pressed, interrupt_flag,
            speech_process, text, sentences, idx, speakRet, result, espeak,
            aplay, camera, mode_index, action, transcript, img, ans, op,
            aiCalls, prompt, opSpeaks, played, outcome, announced, backBegan,
            mainLead>>

vars == <<piVars, desk>>

wpVars == <<pin, elapsed, pressed>>
\* speak's variables other than text and speakRet
spVars == <<speech_process, sentences, idx, result, espeak, aplay, played,
            outcome>>
runVars == <<camera, mode_index, action, transcript, img, ans>>
histVars == <<op, aiCalls, prompt, announced>>

SpeakPcs == {"speak", "speak_loop", "speak_spawn_aplay", "speak_poll"}

\* The desktop variant is not running.
DeskOff == [pc |-> "off"]

\* Module load: GPIO.setup of both pins, speech_process = None,
\* interrupt_flag = False.  The buttons are released.
PiInit ==
    /\ gpio = [p \in Pins |-> "LOW"]
    /\ gpio_setup = TRUE
    /\ pc = "main"
    /\ pin = BTN_MAIN
    /\ elapsed = 0
    /\ pressed = "none"
    /\ interrupt_flag = FALSE
    /\ speech_process = "None"
    /\ text = None
    /\ sentences = <<>>
    /\ idx = 1
    /\ speakRet = "none"
    /\ result = TRUE
    /\ espeak = "none"
    /\ aplay = "none"
    /\ camera = "unset"
    /\ mode_index = -1
    /\ action = "none"
    /\ transcript = None
    /\ img = None
    /\ ans = None
    /\ op = "none"
    /\ aiCalls = 0
    /\ prompt = None
    /\ opSpeaks = <<>>
    /\ played = <<>>
    /\ outcome = "none"
    /\ announced = <<>>
    /\ backBegan = "none"
    /\ mainLead = 0

\* indoorai_pi.py is started; assistive_ai.py is not.
Init == PiInit /\ desk = DeskOff

\* ------------------------------------------------------------ environment
\* An operation started by a Main press is in progress.
InFlight == op \in {"tap", "voice", "capture", "book"} /\ pc # "run_sleep"

\* The main loop is between operations, or on its way out.
Idle == pc \in {"run_poll_back", "run_poll_main", "run_sleep"} \/ op = "exit"

\* The user presses or releases a button.
Press(p) ==
    /\ gpio[p] = "LOW"
    /\ gpio' = [gpio EXCEPT ![p] = "HIGH"]
    /\ backBegan' = IF p # BTN_BACK THEN backBegan
                    ELSE IF InFlight THEN "busy"
                    ELSE IF Idle THEN "idle" ELSE "other"
    /\ mainLead' = IF p = BTN_MAIN THEN 0 ELSE mainLead
    /\ UNCHANGED <<desk, gpio_setup, pc, interrupt_flag, text, speakRet,
                   opSpeaks>>
    /\ UNCHANGED <<wpVars, spVars, runVars, histVars>>

Release(p) ==
    /\ gpio[p] = "HIGH"
    /\ gpio' = [gpio EXCEPT ![p] = "LOW"]
    /\ backBegan' = IF p = BTN_BACK THEN "none" ELSE backBegan
    /\ UNCHANGED mainLead
    /\ UNCHANGED <<desk, gpio_setup, pc, interrupt_flag, text, speakRet,
                   opSpeaks>>
    /\ UNCHANGED <<wpVars, spVars, runVars, histVars>>

\* A tenth of a second passes while wait_press waits for the release.
Tick ==
    /\ pc = "wp_high"
    /\ elapsed < MaxElapsed
    /\ elapsed' = elapsed + 1
    /\ UNCHANGED <<desk, mainLead, gpio, backBegan, gpio_setup, pc, pin,
                   pressed, interrupt_flag, text, speakRet, opSpeaks>>
    /\ UNCHANGED <<spVars, runVars, histVars>>

\* The espeak worker finishes writing its audio and exits.
EspeakExits ==
    /\ espeak = "running"
    /\ espeak' = "done"
    /\ UNCHANGED <<desk, mainLead, gpio, backBegan, gpio_setup, pc,
                   interrupt_flag, text, speakRet, opSpeaks, speech_process,
                   sentences, idx, result, aplay, played, outcome>>
    /\ UNCHANGED <<wpVars, runVars, histVars>>

\* The aplay worker reaches the end of its input and exits.
AplayExits ==
    /\ aplay = "running"
    /\ espeak # "running"
    /\ aplay' = "done"
    /\ UNCHANGED <<desk, mainLead, gpio, backBegan, gpio_setup, pc,
                   interrupt_flag, text, speakRet, opSpeaks, speech_process,
                   sentences, idx, result, espeak, played, outcome>>
    /\ UNCHANGED <<wpVars, runVars, histVars>>

\* ------------------------------------------------------------ wait_press
\* The call wait_press(p) from run, returning to the place p decides.
CallWaitPress(p) ==
    /\ pc' = "wp_low"
    /\ pin' = p
    /\ UNCHANGED <<elapsed, pressed>>

\* (start is put back by the time the press is known to have lasted)
WaitPressSeesHighMutant ==
    /\ pc = "wp_low"
    /\ gpio[pin] = "HIGH"
    /\ elapsed' = mainLead
    /\ pc' = "wp_high"
    /\ UNCHANGED <<desk, mainLead, gpio, backBegan, gpio_setup, pin, pressed,
                   interrupt_flag, text, speakRet, opSpeaks>>
    /\ UNCHANGED <<spVars, runVars, histVars>>

\* First loop ends: the pin reads HIGH; start = time.time().
WaitPressSeesHigh ==
    /\ pc = "wp_low"
    /\ gpio[pin] = "HIGH"
    /\ elapsed' = 0
    /\ pc' = "wp_high"
    /\ UNCHANGED <<desk, mainLead, gpio, backBegan, gpio_setup, pin, pressed,
                   interrupt_flag, text, speakRet, opSpeaks>>
    /\ UNCHANGED <<spVars, runVars, histVars>>

\* Second loop ends: the pin reads LOW; the press is classified.
WaitPressSeesLow ==
    /\ pc = "wp_high"
    /\ gpio[pin] = "LOW"
    /\ pressed' = Classify(elapsed)
    /\ pc' = IF pin = BTN_BACK THEN "run_exit" ELSE "run_action"
    /\ UNCHANGED <<desk, mainLead, gpio, backBegan, gpio_setup, pin, elapsed,
                   interrupt_flag, text, speakRet, opSpeaks>>
    /\ UNCHANGED <<spVars, runVars, histVars>>

\* ------------------------------------------------------------ speak
callVars == <<text, speakRet, opSpeaks>>

\* The call speak(t) whose return continues at r.
CallSpeak(t, r) ==
    /\ pc' = "speak"
    /\ text' = t
    /\ speakRet' = r
    /\ opSpeaks' = Append(opSpeaks, t)
    /\ UNCHANGED spVars

\* speak returns v, having ended the way o says.
SpeakReturns(v, o) ==
    /\ result' = v
    /\ outcome' = o
    /\ pc' = speakRet

\* The worker behind the handle after stop_speech's kill() and wait().
Stopped(w) == IF w = "running" THEN "killed" ELSE w

\* interrupt_flag = False; stop_speech(); the text is split into sentences.
SpeakEnter ==
    /\ pc = "speak"
    /\ interrupt_flag' = FALSE
    /\ espeak' = IF speech_process # "None" THEN Stopped(espeak) ELSE espeak
    /\ speech_process' = "None"
    /\ sentences' = SplitSentences(text)
    /\ idx' = 1
    /\ played' = <<>>
    /\ outcome' = "running"
    /\ pc' = "speak_loop"
    /\ UNCHANGED <<desk, mainLead, gpio, backBegan, gpio_setup, result,
                   aplay>>
    /\ UNCHANGED <<wpVars, callVars, runVars, histVars>>

\* The for loop is exhausted: speech_process = None; return not interrupt_flag.
SpeakFinish ==
    /\ pc = "speak_loop"
    /\ idx > Len(sentences)
    /\ speech_process' = "None"
    /\ SpeakReturns(~interrupt_flag, "completed")
    /\ UNCHANGED <<desk, mainLead, gpio, backBegan, gpio_setup,
                   interrupt_flag, sentences, idx, espeak, aplay, played>>
    /\ UNCHANGED <<wpVars, callVars, runVars, histVars>>

\* The checkpoint before a sentence sees the flag or the cancel input: the
\* loop breaks, speech_process = None, return not interrupt_flag.
SpeakCheckpointCancel ==
    /\ pc = "speak_loop"
    /\ idx <= Len(sentences)
    /\ interrupt_flag \/ gpio[BTN_BACK] = "HIGH"
    /\ interrupt_flag' = TRUE
    /\ speech_process' = "None"
    /\ SpeakReturns(~interrupt_flag', "cancel_checkpoint")
    /\ UNCHANGED <<desk, mainLead, gpio, backBegan, gpio_setup, sentences,
                   idx, espeak, aplay, played>>
    /\ UNCHANGED <<wpVars, callVars, runVars, histVars>>

\* The checkpoint passes and espeak is spawned for the sentence.
SpeakSpawnEspeak ==
    /\ pc = "speak_loop"
    /\ idx <= Len(sentences)
    /\ ~(interrupt_flag \/ gpio[BTN_BACK] = "HIGH")
    /\ espeak' = "running"
    /\ speech_process' = "espeak"
    /\ played' = Append(played, sentences[idx])
    /\ pc' = "speak_spawn_aplay"
    /\ UNCHANGED <<desk, mainLead, gpio, backBegan, gpio_setup,
                   interrupt_flag, sentences, idx, result, aplay, outcome>>
    /\ UNCHANGED <<wpVars, callVars, runVars, histVars>>

\* The checkpoint passes and Popen(['espeak', ...]) raises: the except
\* clause sets speech_process = None and returns False.
SpeakSpawnEspeakFails ==
    /\ pc = "speak_loop"
    /\ idx <= Len(sentences)
    /\ ~(interrupt_flag \/ gpio[BTN_BACK] = "HIGH")
    /\ speech_process' = "None"
    /\ SpeakReturns(FALSE, "error")
    /\ UNCHANGED <<desk, mainLead, gpio, backBegan, gpio_setup,
                   interrupt_flag, sentences, idx, espeak, aplay, played>>
    /\ UNCHANGED <<wpVars, callVars, runVars, histVars>>

\* aplay is spawned on espeak's output.
SpeakSpawnAplay ==
    /\ pc = "speak_spawn_aplay"
    /\ aplay' = "running"
    /\ pc' = "speak_poll"
    /\ UNCHANGED <<desk, mainLead, gpio, backBegan, gpio_setup,
                   interrupt_flag, speech_process, sentences, idx, result,
                   espeak, played, outcome>>
    /\ UNCHANGED <<wpVars, callVars, runVars, histVars>>

\* Popen(['aplay']) raises: the except clause sets speech_process = None and
\* returns False; the espeak worker is left as it is.
SpeakSpawnAplayFails ==
    /\ pc = "speak_spawn_aplay"
    /\ speech_process' = "None"
    /\ SpeakReturns(FALSE, "error")
    /\ UNCHANGED <<desk, mainLead, gpio, backBegan, gpio_setup,
                   interrupt_flag, sentences, idx, espeak, aplay, played>>
    /\ UNCHANGED <<wpVars, callVars, runVars, histVars>>

\* A poll while aplay runs sees the cancel input: both workers are killed
\* and speak returns False.
SpeakPollCancelMutant ==
    /\ pc = "speak_poll"
    /\ aplay = "running"
    /\ gpio[BTN_BACK] = "HIGH"
    /\ aplay' = "killed"
    /\ espeak' = Stopped(espeak)
    /\ outcome' = "cancel_poll"
    /\ UNCHANGED <<desk, gpio, backBegan, gpio_setup, pc, interrupt_flag,
                   speech_process, sentences, idx, result, played>>
    /\ UNCHANGED <<wpVars, callVars, runVars, histVars>>
    /\ mainLead' = IF gpio[BTN_MAIN] = "HIGH" /\ InFlight THEN CANCEL_SLEEP
                   ELSE mainLead
SpeakPollCancel ==
    /\ pc = "speak_poll"
    /\ aplay = "running"
    /\ gpio[BTN_BACK] = "HIGH"
    /\ interrupt_flag' = TRUE
    /\ aplay' = "killed"
    /\ espeak' = Stopped(espeak)
    /\ SpeakReturns(FALSE, "cancel_poll")
    /\ UNCHANGED <<desk, gpio, backBegan, gpio_setup, speech_process,
                   sentences, idx, played>>
    /\ UNCHANGED <<wpVars, callVars, runVars, histVars>>
    /\ mainLead' = IF gpio[BTN_MAIN] = "HIGH" /\ InFlight THEN CANCEL_SLEEP
                   ELSE mainLead

\* (the loop goes on to the next sentence without waiting for aplay)
SpeakSentenceDoneMutant ==
    /\ pc = "speak_poll"
    /\ idx' = idx + 1
    /\ pc' = "speak_loop"
    /\ UNCHANGED <<desk, mainLead, gpio, backBegan, gpio_setup,
                   interrupt_flag, speech_process, sentences, result, espeak,
                   aplay, played, outcome>>
    /\ UNCHANGED <<wpVars, callVars, runVars, histVars>>

\* aplay.poll() is no longer None: the sentence is over, the loop goes on.
SpeakSentenceDone ==
    /\ pc = "speak_poll"
    /\ aplay # "running"
    /\ idx' = idx + 1
    /\ pc' = "speak_loop"
    /\ UNCHANGED <<desk, mainLead, gpio, backBegan, gpio_setup,
                   interrupt_flag, speech_process, sentences, result, espeak,
                   aplay, played, outcome>>
    /\ UNCHANGED <<wpVars, callVars, runVars, histVars>>

Speak ==
    \/ SpeakEnter
    \/ SpeakFinish
    \/ SpeakCheckpointCancel
    \/ SpeakSpawnEspeak
    \/ SpeakSpawnEspeakFails
    \/ SpeakSpawnAplay
    \/ SpeakSpawnAplayFails
    \/ SpeakPollCancel
    \/ SpeakSentenceDone

\* ------------------------------------------------------------ main, __init__
\* The history of announce_mode, which keeps its first MaxLog texts.
Logged(log, t) == IF Len(log) < MaxLog THEN Append(log, t) ELSE log

\* No API key in the environment or in config.txt: sys.exit(1).
MainKeyMissing ==
    /\ pc = "main"
    /\ pc' = "exit1"
    /\ UNCHANGED <<desk, mainLead, gpio, backBegan, gpio_setup,
                   interrupt_flag>>
    /\ UNCHANGED <<wpVars, callVars, spVars, runVars, histVars>>

\* AccessibilityAssistant(api) raises before it speaks (genai.Client,
\* sr.Microphone() without an input device, cv2.VideoCapture): main has no
\* try around the constructor, the process ends with the traceback.
InitRaises ==
    /\ pc = "main"
    /\ pc' = "crashed"
    /\ UNCHANGED <<desk, mainLead, gpio, backBegan, gpio_setup,
                   interrupt_flag>>
    /\ UNCHANGED <<wpVars, callVars, spVars, runVars, histVars>>

\* __init__ opens the camera and says whether it is there.
InitCamera ==
    /\ pc = "main"
    /\ \E opened \in BOOLEAN :
          /\ camera' = IF opened THEN "open" ELSE "None"
          /\ CallSpeak(IF opened THEN <<"Camera", " ", "ready">>
                       ELSE <<"Camera", " ", "not", " ", "available">>,
                       "init_modes")
    /\ op' = "init"
    /\ UNCHANGED <<desk, mainLead, gpio, backBegan, gpio_setup,
                   interrupt_flag, mode_index, action, transcript, img, ans,
                   aiCalls, prompt, announced>>
    /\ UNCHANGED wpVars

\* self.mode_index = 0; speak("Assistant ready")
InitModes ==
    /\ pc = "init_modes"
    /\ mode_index' = 0
    /\ CallSpeak(<<"Assistant", " ", "ready">>, "init_announce")
    /\ UNCHANGED <<desk, mainLead, gpio, backBegan, gpio_setup,
                   interrupt_flag, camera, action, transcript, img, ans>>
    /\ UNCHANGED <<wpVars, histVars>>

\* self.announce_mode() at the end of __init__; then main calls run().
InitAnnounce ==
    /\ pc = "init_announce"
    /\ CallSpeak(AnnounceText(mode_index), "run_poll_back")
    /\ announced' = Logged(announced, AnnounceText(mode_index))
    /\ UNCHANGED <<desk, mainLead, gpio, backBegan, gpio_setup,
                   interrupt_flag, op, aiCalls, prompt>>
    /\ UNCHANGED <<wpVars, runVars>>

\* ------------------------------------------------------------ run
\* if GPIO.input(BTN_BACK) == GPIO.HIGH: wait_press(BTN_BACK)
RunPollBackHigh ==
    /\ pc = "run_poll_back"
    /\ gpio[BTN_BACK] = "HIGH"
    /\ CallWaitPress(BTN_BACK)
    /\ op' = "exit"
    /\ UNCHANGED <<desk, mainLead, gpio, backBegan, gpio_setup,
                   interrupt_flag, aiCalls, prompt, announced>>
    /\ UNCHANGED <<callVars, spVars, runVars>>

\* (the Back test is skipped when Main is active too)
RunPollBackLowMutant ==
    /\ pc = "run_poll_back"
    /\ gpio[BTN_BACK] = "LOW" \/ gpio[BTN_MAIN] = "HIGH"
    /\ pc' = "run_poll_main"
    /\ UNCHANGED <<desk, mainLead, gpio, backBegan, gpio_setup,
                   interrupt_flag>>
    /\ UNCHANGED <<wpVars, callVars, spVars, runVars, histVars>>

\* The Back test of the poll fails: on to the Main test.
RunPollBackLow ==
    /\ pc = "run_poll_back"
    /\ gpio[BTN_BACK] = "LOW"
    /\ pc' = "run_poll_main"
    /\ UNCHANGED <<desk, mainLead, gpio, backBegan, gpio_setup,
                   interrupt_flag>>
    /\ UNCHANGED <<wpVars, callVars, spVars, runVars, histVars>>

\* if GPIO.input(BTN_MAIN) == GPIO.HIGH: action = wait_press(BTN_MAIN)
RunPollMainHigh ==
    /\ pc = "run_poll_main"
    /\ gpio[BTN_MAIN] = "HIGH"
    /\ CallWaitPress(BTN_MAIN)
    /\ UNCHANGED <<desk, mainLead, gpio, backBegan, gpio_setup,
                   interrupt_flag>>
    /\ UNCHANGED <<callVars, spVars, runVars, histVars>>

RunPollMainLow ==
    /\ pc = "run_poll_main"
    /\ gpio[BTN_MAIN] = "LOW"
    /\ pc' = "run_sleep"
    /\ UNCHANGED <<desk, mainLead, gpio, backBegan, gpio_setup,
                   interrupt_flag>>
    /\ UNCHANGED <<wpVars, callVars, spVars, runVars, histVars>>

\* wait_press(BTN_BACK) has returned: speak("Exiting assistant")
RunExit ==
    /\ pc = "run_exit"
    /\ CallSpeak(<<"Exiting", " ", "assistant">>, "run_break")
    /\ UNCHANGED <<desk, mainLead, gpio, backBegan, gpio_setup,
                   interrupt_flag>>
    /\ UNCHANGED <<wpVars, runVars, histVars>>

\* break; the finally clause of main runs cleanup.
RunBreak ==
    /\ pc = "run_break"
    /\ pc' = "cleanup"
    /\ UNCHANGED <<desk, mainLead, gpio, backBegan, gpio_setup,
                   interrupt_flag>>
    /\ UNCHANGED <<wpVars, callVars, spVars, runVars, histVars>>

\* (action is assigned, the flag is left as the last operation set it)
RunActionMutant ==
    /\ pc = "run_action"
    /\ action' = pressed
    /\ pc' = "run_branch"
    /\ opSpeaks' = <<>>
    /\ aiCalls' = 0
    /\ op' = "main"
    /\ UNCHANGED <<desk, gpio, backBegan, gpio_setup, interrupt_flag, text,
                   speakRet, camera, mode_index, transcript, img, ans,
                   prompt, announced>>
    /\ UNCHANGED <<wpVars, spVars>>
    /\ mainLead' = 0

\* wait_press(BTN_MAIN) has returned: action is assigned and
\* interrupt_flag = False.  The iteration's history starts afresh.
RunAction ==
    /\ pc = "run_action"
    /\ action' = pressed
    /\ interrupt_flag' = FALSE
    /\ pc' = "run_branch"
    /\ opSpeaks' = <<>>
    /\ aiCalls' = 0
    /\ op' = "main"
    /\ UNCHANGED <<desk, gpio, backBegan, gpio_setup, text, speakRet, camera,
                   mode_index, transcript, img, ans, prompt, announced>>
    /\ UNCHANGED <<wpVars, spVars>>
    /\ mainLead' = 0

\* if action == "tap": the mode advances and is announced.
RunTap ==
    /\ pc = "run_branch"
    /\ action = "tap"
    /\ mode_index' = NextModeIndex(mode_index)
    /\ CallSpeak(AnnounceText(mode_index'), "run_sleep")
    /\ announced' = Logged(announced, AnnounceText(mode_index'))
    /\ op' = "tap"
    /\ UNCHANGED <<desk, mainLead, gpio, backBegan, gpio_setup,
                   interrupt_flag, camera, action, transcript, img, ans,
                   aiCalls, prompt>>
    /\ UNCHANGED wpVars

\* else: mode = self.modes[self.mode_index]; the mode's branch is entered.
RunHoldMutant ==
    /\ pc = "run_branch"
    /\ action = "hold"
    /\ mode_index' = NextModeIndex(mode_index)
    /\ LET mode == modes[mode_index + 1]
       IN  /\ op' = mode[1]
           /\ pc' = IF mode = <<"voice">> THEN "listen" ELSE "capture"
    /\ UNCHANGED <<desk, mainLead, gpio, backBegan, gpio_setup,
                   interrupt_flag, aiCalls, prompt, announced, camera,
                   action, transcript, img, ans>>
    /\ UNCHANGED <<wpVars, callVars, spVars>>
RunHold ==
    /\ pc = "run_branch"
    /\ action = "hold"
    /\ LET mode == modes[mode_index + 1]
       IN  /\ op' = mode[1]
           /\ pc' = IF mode = <<"voice">> THEN "listen" ELSE "capture"
    /\ UNCHANGED <<desk, mainLead, gpio, backBegan, gpio_setup,
                   interrupt_flag, aiCalls, prompt, announced>>
    /\ UNCHANGED <<wpVars, callVars, spVars, runVars>>

\* ------------------------------------------------------------ listen
\* interrupt_flag = False; the microphone opens; speak("Listening")
ListenEnter ==
    /\ pc = "listen"
    /\ interrupt_flag' = FALSE
    /\ CallSpeak(<<"Listening">>, "listen_check1")
    /\ UNCHANGED <<desk, mainLead, gpio, backBegan, gpio_setup>>
    /\ UNCHANGED <<wpVars, runVars, histVars>>

\* interrupt_flag = False; entering "with self.mic" raises.
ListenMicFails ==
    /\ pc = "listen"
    /\ interrupt_flag' = FALSE
    /\ pc' = "listen_except"
    /\ UNCHANGED <<desk, mainLead, gpio, backBegan, gpio_setup>>
    /\ UNCHANGED <<wpVars, callVars, spVars, runVars, histVars>>

\* (the interrupted branch clears the flag and goes on to record)
ListenInterruptedMutant ==
    /\ pc = "listen_check1"
    /\ interrupt_flag
    /\ interrupt_flag' = FALSE
    /\ pc' = "listen_check2"
    /\ UNCHANGED <<desk, mainLead, gpio, backBegan, gpio_setup>>
    /\ UNCHANGED <<wpVars, callVars, spVars, runVars, histVars>>

\* if interrupt_flag: return None   (after speak("Listening"))
ListenInterrupted ==
    /\ pc = "listen_check1"
    /\ interrupt_flag
    /\ transcript' = None
    /\ pc' = "voice_dispatch"
    /\ UNCHANGED <<desk, mainLead, gpio, backBegan, gpio_setup,
                   interrupt_flag, camera, mode_index, action, img, ans>>
    /\ UNCHANGED <<wpVars, callVars, spVars, histVars>>

\* self.recognizer.listen(src, ...) returns the audio.
ListenRecord ==
    /\ pc = "listen_check1"
    /\ ~interrupt_flag
    /\ pc' = "listen_check2"
    /\ UNCHANGED <<desk, mainLead, gpio, backBegan, gpio_setup,
                   interrupt_flag>>
    /\ UNCHANGED <<wpVars, callVars, spVars, runVars, histVars>>

\* self.recognizer.listen(src, ...) raises (no speech within the timeout).
ListenRecordFails ==
    /\ pc = "listen_check1"
    /\ ~interrupt_flag
    /\ pc' = "listen_except"
    /\ UNCHANGED <<desk, mainLead, gpio, backBegan, gpio_setup,
                   interrupt_flag>>
    /\ UNCHANGED <<wpVars, callVars, spVars, runVars, histVars>>

\* if interrupt_flag: return None; return recognize_google(audio).lower()
ListenRecognize ==
    /\ pc = "listen_check2"
    /\ IF interrupt_flag THEN transcript' = None
       ELSE \E t \in Transcripts : transcript' = t
    /\ pc' = "voice_dispatch"
    /\ UNCHANGED <<desk, mainLead, gpio, backBegan, gpio_setup,
                   interrupt_flag, camera, mode_index, action, img, ans>>
    /\ UNCHANGED <<wpVars, callVars, spVars, histVars>>

\* recognize_google raises (unintelligible speech, service error).
ListenRecognizeFails ==
    /\ pc = "listen_check2"
    /\ ~interrupt_flag
    /\ pc' = "listen_except"
    /\ UNCHANGED <<desk, mainLead, gpio, backBegan, gpio_setup,
                   interrupt_flag>>
    /\ UNCHANGED <<wpVars, callVars, spVars, runVars, histVars>>

\* except: return None   (no message)
ListenExceptMutant ==
    /\ pc = "listen_except"
    /\ pc' = "listen_none"
    /\ UNCHANGED <<callVars, spVars>>
    /\ UNCHANGED <<desk, mainLead, gpio, backBegan, gpio_setup,
                   interrupt_flag>>
    /\ UNCHANGED <<wpVars, runVars, histVars>>

\* except: if not interrupt_flag: speak("Sorry I did not understand")
ListenExcept ==
    /\ pc = "listen_except"
    /\ IF ~interrupt_flag
       THEN CallSpeak(<<"Sorry", " ", "I", " ", "did", " ", "not", " ",
                        "understand">>, "listen_none")
       ELSE /\ pc' = "listen_none"
            /\ UNCHANGED <<callVars, spVars>>
    /\ UNCHANGED <<desk, mainLead, gpio, backBegan, gpio_setup,
                   interrupt_flag>>
    /\ UNCHANGED <<wpVars, runVars, histVars>>

\* (after the failure message, listen starts over)
ListenReturnsNoneMutant ==
    /\ pc = "listen_none"
    /\ transcript' = None
    /\ pc' = "listen"
    /\ UNCHANGED <<desk, mainLead, gpio, backBegan, gpio_setup,
                   interrupt_flag, camera, mode_index, action, img, ans>>
    /\ UNCHANGED <<wpVars, callVars, spVars, histVars>>

\* return None   (the end of the except clause)
ListenReturnsNone ==
    /\ pc = "listen_none"
    /\ transcript' = None
    /\ pc' = "voice_dispatch"
    /\ UNCHANGED <<desk, mainLead, gpio, backBegan, gpio_setup,
                   interrupt_flag, camera, mode_index, action, img, ans>>
    /\ UNCHANGED <<wpVars, callVars, spVars, histVars>>

\* ------------------------------------------------------------ capture
Image == <<"image">>

\* capture(): None without a camera or when the read fails, else the frame.
Capture ==
    /\ pc = "capture"
    /\ \E ok \in BOOLEAN :
          img' = IF camera = "open" /\ ok THEN Image ELSE None
    /\ pc' = "image_dispatch"
    /\ UNCHANGED <<desk, mainLead, gpio, backBegan, gpio_setup,
                   interrupt_flag, camera, mode_index, action, transcript,
                   ans>>
    /\ UNCHANGED <<wpVars, callVars, spVars, histVars>>

\* ------------------------------------------------------------ dispatch
\* "if text and not interrupt_flag", "if img and not interrupt_flag"
ShouldAskMutant(v, flag) == Truthy(v) \/ flag
ShouldAsk(v, flag) == Truthy(v) /\ ~flag

\* ask_text(text): the gateway call is issued.
VoiceAsk ==
    /\ pc = "voice_dispatch"
    /\ ShouldAsk(transcript, interrupt_flag)
    /\ aiCalls' = aiCalls + 1
    /\ prompt' = TextPrompt(transcript)
    /\ pc' = "ai_wait"
    /\ UNCHANGED <<desk, mainLead, gpio, backBegan, gpio_setup,
                   interrupt_flag, op, announced>>
    /\ UNCHANGED <<wpVars, callVars, spVars, runVars>>

VoiceSkip ==
    /\ pc = "voice_dispatch"
    /\ ~ShouldAsk(transcript, interrupt_flag)
    /\ pc' = "run_sleep"
    /\ UNCHANGED <<desk, mainLead, gpio, backBegan, gpio_setup,
                   interrupt_flag>>
    /\ UNCHANGED <<wpVars, callVars, spVars, runVars, histVars>>

\* ask_image(img, mode): the gateway call is issued.
ImageAsk ==
    /\ pc = "image_dispatch"
    /\ ShouldAsk(img, interrupt_flag)
    /\ aiCalls' = aiCalls + 1
    /\ prompt' = ImagePrompt(modes[mode_index + 1]) \o img
    /\ pc' = "ai_wait"
    /\ UNCHANGED <<desk, mainLead, gpio, backBegan, gpio_setup,
                   interrupt_flag, op, announced>>
    /\ UNCHANGED <<wpVars, callVars, spVars, runVars>>

ImageSkip ==
    /\ pc = "image_dispatch"
    /\ ~ShouldAsk(img, interrupt_flag)
    /\ pc' = "run_sleep"
    /\ UNCHANGED <<desk, mainLead, gpio, backBegan, gpio_setup,
                   interrupt_flag>>
    /\ UNCHANGED <<wpVars, callVars, spVars, runVars, histVars>>

\* generate_content returns: ans is its text; speak(ans)
AiReturns ==
    /\ pc = "ai_wait"
    /\ \E a \in Answers :
          /\ ans' = a
          /\ CallSpeak(a, "run_sleep")
    /\ UNCHANGED <<desk, mainLead, gpio, backBegan, gpio_setup,
                   interrupt_flag, camera, mode_index, action, transcript,
                   img>>
    /\ UNCHANGED <<wpVars, histVars>>

\* generate_content raises: nothing in run catches it, main's finally runs.
AiRaises ==
    /\ pc = "ai_wait"
    /\ pc' = "cleanup"
    /\ UNCHANGED <<desk, mainLead, gpio, backBegan, gpio_setup,
                   interrupt_flag>>
    /\ UNCHANGED <<wpVars, callVars, spVars, runVars, histVars>>

\* time.sleep(0.05) and the next iteration.  The locals of the iteration
\* that ends are dead and are reset, with the iteration's history.
RunSleep ==
    /\ pc = "run_sleep"
    /\ pc' = "run_poll_back"
    /\ elapsed' = 0
    /\ pressed' = "none"
    /\ text' = None
    /\ speakRet' = "none"
    /\ sentences' = <<>>
    /\ idx' = 1
    /\ result' = TRUE
    /\ action' = "none"
    /\ transcript' = None
    /\ img' = None
    /\ ans' = None
    /\ op' = "none"
    /\ aiCalls' = 0
    /\ prompt' = None
    /\ opSpeaks' = <<>>
    /\ played' = <<>>
    /\ outcome' = "none"
    /\ UNCHANGED <<desk, mainLead, gpio, backBegan, gpio_setup, pin,
                   interrupt_flag, speech_process, espeak, aplay, camera,
                   mode_index, announced>>

\* (cleanup stops the speech but releases neither the camera nor the GPIO)
CleanupMutant ==
    /\ pc = "cleanup"
    /\ espeak' = IF speech_process # "None" THEN Stopped(espeak) ELSE espeak
    /\ speech_process' = "None"
    /\ pc' = "exited"
    /\ UNCHANGED <<desk, mainLead, gpio, backBegan, gpio_setup, camera,
                   interrupt_flag, sentences, idx, result, aplay, played,
                   outcome, mode_index, action, transcript, img, ans>>
    /\ UNCHANGED <<wpVars, callVars, histVars>>

\* cleanup(): stop_speech(); self.camera.release(); GPIO.cleanup()
Cleanup ==
    /\ pc = "cleanup"
    /\ espeak' = IF speech_process # "None" THEN Stopped(espeak) ELSE espeak
    /\ speech_process' = "None"
    /\ camera' = IF camera = "open" THEN "released" ELSE camera
    /\ gpio_setup' = FALSE
    /\ pc' = "exited"
    /\ UNCHANGED <<desk, mainLead, gpio, backBegan, interrupt_flag,
                   sentences, idx, result, aplay, played, outcome,
                   mode_index, action, transcript, img, ans>>
    /\ UNCHANGED <<wpVars, callVars, histVars>>

\* ------------------------------------------------------------ specification
Environment ==
    \/ \E p \in Pins : Press(p)
    \/ \E p \in Pins : Release(p)
    \/ Tick
    \/ EspeakExits
    \/ AplayExits

WaitPress ==
    \/ WaitPressSeesHigh
    \/ WaitPressSeesLow

Startup ==
    \/ MainKeyMissing
    \/ InitRaises
    \/ InitCamera
    \/ InitModes
    \/ InitAnnounce

Run ==
    \/ RunPollBackHigh
    \/ RunPollBackLow
    \/ RunPollMainHigh
    \/ RunPollMainLow
    \/ RunExit
    \/ RunBreak
    \/ RunAction
    \/ RunTap
    \/ RunHold
    \/ RunSleep
    \/ Cleanup

Listen ==
    \/ ListenEnter
    \/ ListenMicFails
    \/ ListenInterrupted
    \/ ListenRecord
    \/ ListenRecordFails
    \/ ListenRecognize
    \/ ListenRecognizeFails
    \/ ListenExcept
    \/ ListenReturnsNone

Dispatch ==
    \/ Capture
    \/ VoiceAsk
    \/ VoiceSkip
    \/ ImageAsk
    \/ ImageSkip
    \/ AiReturns
    \/ AiRaises

Next ==
    \/ Environment
    \/ WaitPress
    \/ Startup
    \/ Speak
    \/ Run
    \/ Listen
    \/ Dispatch

Spec == Init /\ [][Next]_vars

\* The steps of the program's single thread.
Program == WaitPress \/ Startup \/ Speak \/ Run \/ Listen \/ Dispatch

\* ------------------------------------------------------------ desktop
\* assistive_ai.py, the desktop variant: keyboard commands instead of buttons,
\* pyttsx3 instead of espeak, no interruption.  Its state is the record desk.

\* What the recognizer can return, and what generate_content can return
\* (response.text is None for a blocked answer) or raise (str(e), maybe "").
DeskTranscripts == {<<"Yes">>, <<"no">>, <<"summarize">>, <<"what", " ", "time">>}
DeskResponses == {<<"It", " ", "is", " ", "noon">>, None}
DeskErrors == {<<"timeout">>, <<>>}
Commands == {"v", "c", "b", "q"}
Frame == <<"pil_image", "filename">>

\* str.lower() on the words used here.
LowerWord(w) ==
    CASE w = "Yes" -> "yes"
      [] w = "Read" -> "read"
      [] OTHER -> w
Lower(t) == [i \in 1..Len(t) |-> LowerWord(t[i])]

\* "w" in t, for a word w.
HasWord(t, w) == \E i \in 1..Len(t) : t[i] = w

\* The outcomes of listen_for_voice: a transcript, or one of the three
\* exceptions it catches.
ListenOutcomes ==
    [kind : {"ok"}, text : DeskTranscripts]
        \cup [kind : {"timeout", "unknown", "request"}, text : {None}]

\* What listen_for_voice speaks, in order, and what it returns.
ListenSaid(o) ==
    LET after ==
          CASE o.kind = "ok" ->
                 << <<"Processing your speech...">>,
                    <<"You said: ">> \o o.text >>
            [] o.kind = "timeout" ->
                 << <<"No speech detected. Please try again.">> >>
            [] o.kind = "unknown" ->
                 << <<"Processing your speech...">>,
                    <<"Sorry, I couldn't understand what you said. Please try again.">> >>
            [] OTHER ->
                 << <<"Processing your speech...">>,
                    <<"Sorry, there was an error with the speech recognition service.">> >>
    IN  << <<"Listening... Please speak now.">> >> \o after
ListenValue(o) == IF o.kind = "ok" THEN o.text ELSE None

\* The record after one call of listen_for_voice with outcome o.
Listened(d, o) ==
    [d EXCEPT !.said = @ \o ListenSaid(o), !.listens = @ + 1]

\* The outcomes of one generate_content call.
GatewayOutcomes ==
    [kind : {"ok"}, text : DeskResponses]
        \cup [kind : {"raise"}, text : DeskErrors]

\* The progress message a gateway function speaks first, and the prefix of
\* the error message its except clause builds.
ProgressMessage(cmd) ==
    CASE cmd = "v" -> <<"Processing your question with Gemini AI...">>
      [] cmd = "c" -> <<"Analyzing the image with Gemini AI...">>
      [] OTHER -> <<"Reading text from the image...">>
ErrorPrefix(cmd) ==
    CASE cmd = "v" -> <<"Error communicating with Gemini: ">>
      [] cmd = "c" -> <<"Error analyzing image with Gemini: ">>
      [] OTHER -> <<"Error extracting text from image: ">>

\* except Exception as e: error_msg = f"...: {str(e)}"; return error_msg
ErrorMessageMutant(cmd, e) == None
ErrorMessage(cmd, e) == ErrorPrefix(cmd) \o e

\* What extract_and_process_text_from_image returns for an answer with no
\* text: a text joined from the candidate's parts, or a fixed message.
BookFallbacks ==
    {<<"Unable to extract text. The content may be blocked due to copyright protection.">>,
     <<"No response received from Gemini.">>,
     <<"I could not detect any readable text in this image. Please ensure the book page is well-lit, in focus, and clearly visible to the camera.">>}

\* The assistant after __init__ with the camera as given; no command yet.
Constructed(cam) ==
    [pc |-> "idle", camera |-> cam, is_running |-> TRUE, cmd |-> "none",
     text |-> None, context |-> None, mode |-> "read", result |-> None,
     response |-> None, calls |-> 0, failedAt |-> 0, said |-> <<>>,
     listens |-> 0, captures |-> 0]

\* A key is seen pressed: the handler starts with fresh locals and history.
Started(d, c) ==
    [Constructed(d.camera) EXCEPT !.cmd = c]

DesktopInit ==
    /\ PiInit
    /\ \E cam \in {"open", "None"} : desk = Constructed(cam)

\* self.speak(t): pyttsx3 says it; an error of the engine is caught there.
Said(d, t) == [d EXCEPT !.said = Append(@, t)]

\* run: keyboard.is_pressed('v') -> process_voice_input:
\* text = self.listen_for_voice()
DeskVoice ==
    /\ desk.pc = "idle"
    /\ desk.is_running
    /\ \E o \in ListenOutcomes :
          desk' = [Listened(Started(desk, "v"), o) EXCEPT
                      !.text = ListenValue(o), !.pc = "send"]
    /\ UNCHANGED piVars

\* 'c' or 'b' with self.camera is None: the message, and return.
DeskCameraUnavailable ==
    /\ desk.pc = "idle"
    /\ desk.is_running
    /\ desk.camera = "None"
    /\ \E c \in {"c", "b"} :
          desk' = [Said(Started(desk, c),
                        <<"Camera is not available. Please check your camera connection.">>)
                   EXCEPT !.pc = "sleep"]
    /\ UNCHANGED piVars

\* 'c' with a camera: the question, context_input = listen_for_voice(), and
\* if it says yes, the second question and context = listen_for_voice().
DeskCamera ==
    /\ desk.pc = "idle"
    /\ desk.is_running
    /\ desk.camera # "None"
    /\ \E o1, o2 \in ListenOutcomes :
          LET d1 == Listened(Said(Started(desk, "c"),
                         <<"Do you want to provide context for the image? Say yes or no.">>),
                         o1)
              yes == Truthy(ListenValue(o1))
                        /\ HasWord(Lower(ListenValue(o1)), "yes")
              d2 == IF yes
                    THEN [Listened(Said(d1,
                             <<"Please describe what you want me to focus on in the image.">>),
                             o2)
                          EXCEPT !.context = ListenValue(o2)]
                    ELSE d1
          IN  /\ yes \/ o2 = o1
              /\ desk' = [d2 EXCEPT !.text = ListenValue(o1),
                                    !.pc = "capture"]
    /\ UNCHANGED piVars

\* 'b' with a camera: the question, mode_input = listen_for_voice(), the
\* mode it names (read by default) and the confirmation.
DeskBook ==
    /\ desk.pc = "idle"
    /\ desk.is_running
    /\ desk.camera # "None"
    /\ \E o \in ListenOutcomes :
          LET d1 == Listened(Said(Started(desk, "b"),
                         <<"Do you want me to read the full text, or summarize it? Say read or summarize. If you say nothing, I will read the full text.">>),
                         o)
              v == ListenValue(o)
              low == IF Truthy(v) THEN Lower(v) ELSE <<>>
              sum == HasWord(low, "summarize") \/ HasWord(low, "summary")
                        \/ HasWord(low, "brief")
              msg == IF ~Truthy(v)
                     THEN <<"No input detected. I will read the full text by default.">>
                     ELSE IF sum
                     THEN <<"I will summarize the text for you.">>
                     ELSE IF HasWord(low, "read")
                     THEN <<"I will read the full text for you.">>
                     ELSE <<"I didn't understand. I will read the full text by default.">>
          IN  desk' = [Said(d1, msg) EXCEPT
                          !.text = v,
                          !.mode = IF Truthy(v) /\ sum THEN "summarize"
                                   ELSE "read",
                          !.pc = "capture"]
    /\ UNCHANGED piVars

\* result = self.capture_image(): without a camera the message and None;
\* else the countdown, camera.read(), and the frame with its file name, or
\* None when the read fails.
DeskCapture ==
    /\ desk.pc = "capture"
    /\ IF desk.camera = "None"
       THEN desk' = [Said(desk, <<"Camera is not available.">>) EXCEPT
                        !.result = None, !.pc = "send"]
       ELSE \E ret \in BOOLEAN :
              LET d1 == Said(desk, <<"Capturing image in 3... 2... 1...">>)
                  d2 == Said(d1,
                             IF ret THEN <<"Image captured successfully.">>
                             ELSE <<"Failed to capture image from camera.">>)
              IN  desk' = [d2 EXCEPT !.captures = @ + 1,
                                     !.result = IF ret THEN Frame ELSE None,
                                     !.pc = "send"]
    /\ UNCHANGED piVars

\* What the handler acquired: the transcript, or the captured frame.
Acquired(d) == IF d.cmd = "v" THEN d.text ELSE d.result

\* "if text:" in process_voice_input, "if result:" in the camera handlers.
ShouldSendMutant(d) == TRUE
ShouldSend(d) == Truthy(Acquired(d))

\* The record after one generate_content call with outcome g, whose text
\* becomes the response when it returns.
Called(d, g, txt) ==
    [d EXCEPT !.calls = @ + 1,
              !.failedAt = IF g.kind = "raise" THEN d.calls + 1 ELSE 0,
              !.response = IF g.kind = "raise"
                           THEN ErrorMessage(d.cmd, g.text) ELSE txt]

\* response = self.send_text_to_gemini(text), or send_image_to_gemini(image,
\* context); self.speak(response)
DeskSend ==
    /\ desk.pc = "send"
    /\ desk.cmd \in {"v", "c"}
    /\ ShouldSend(desk)
    /\ \E g \in GatewayOutcomes :
          LET d1 == Called(Said(desk, ProgressMessage(desk.cmd)), g, g.text)
          IN  desk' = [Said(d1, d1.response) EXCEPT !.pc = "sleep"]
    /\ UNCHANGED piVars

\* response = self.extract_and_process_text_from_image(image, mode);
\* self.speak(response).  A RECITATION finish makes one more call with
\* another prompt; an answer without text is replaced.
DeskBookSend ==
    /\ desk.pc = "send"
    /\ desk.cmd = "b"
    /\ ShouldSend(desk)
    /\ \E g1, g2 \in GatewayOutcomes, recitation \in BOOLEAN,
          fallback \in BookFallbacks :
          LET again == g1.kind = "ok" /\ recitation
              g == IF again THEN g2 ELSE g1
              txt == IF Truthy(g.text) THEN g.text ELSE fallback
              d0 == Said(desk, ProgressMessage(desk.cmd))
              d1 == IF again THEN Called(d0, g1, g1.text) ELSE d0
              d2 == Called(d1, g, txt)
          IN  /\ again \/ g2 = g1
              /\ desk' = [Said(d2, d2.response) EXCEPT !.pc = "sleep"]
    /\ UNCHANGED piVars

\* Nothing was acquired: the handler returns without a gateway call.
DeskSkip ==
    /\ desk.pc = "send"
    /\ ~ShouldSend(desk)
    /\ desk' = [desk EXCEPT !.pc = "sleep"]
    /\ UNCHANGED piVars

\* 'q': the goodbye message; self.is_running = False
DeskQuit ==
    /\ desk.pc = "idle"
    /\ desk.is_running
    /\ desk' = [Said(Started(desk, "q"),
                     <<"Goodbye! Shutting down the Accessibility Assistant.">>)
                EXCEPT !.is_running = FALSE, !.pc = "sleep"]
    /\ UNCHANGED piVars

\* time.sleep at the end of the iteration; the loop tests is_running.
DeskSleep ==
    /\ desk.pc = "sleep"
    /\ desk' = [desk EXCEPT !.pc = "idle"]
    /\ UNCHANGED piVars

\* The loop has ended: main's finally calls cleanup().
DeskCleanup ==
    /\ desk.pc = "idle"
    /\ ~desk.is_running
    /\ desk' = [desk EXCEPT
                   !.camera = IF @ = "open" THEN "released" ELSE @,
                   !.pc = "terminated"]
    /\ UNCHANGED piVars

DesktopNext ==
    \/ DeskVoice
    \/ DeskCameraUnavailable
    \/ DeskCamera
    \/ DeskBook
    \/ DeskCapture
    \/ DeskSend
    \/ DeskBookSend
    \/ DeskSkip
    \/ DeskQuit
    \/ DeskSleep
    \/ DeskCleanup

DesktopSpec == DesktopInit /\ [][DesktopNext]_vars

\* ------------------------------------------------------------ properties
\* The latest speak call has returned and nothing has touched its record.
SpeakReturned ==
    /\ pc \notin SpeakPcs
    /\ text # None
    /\ outcome \notin {"none", "running"}

Cancelled == {"cancel_checkpoint", "cancel_poll"}

IsWord(c) == c \notin Terminators \cup Whitespace

\* The words of a string, in order.
Words(t) == SelectSeq(t, IsWord)

RECURSIVE Flatten(_)
Flatten(ss) == IF ss = <<>> THEN <<>> ELSE Head(ss) \o Flatten(Tail(ss))

\* A sentence segment: not empty, no terminator inside, trimmed.
IsSegment(s) ==
    /\ s # <<>>
    /\ \A i \in 1..Len(s) : s[i] \notin Terminators
    /\ s[1] \notin Whitespace
    /\ s[Len(s)] \notin Whitespace

\* How many pieces the terminators cut a string into that hold a word.
RECURSIVE SegmentCount(_, _)
SegmentCount(t, inWord) ==
    IF t = <<>> THEN 0
    ELSE IF Head(t) \in Terminators THEN SegmentCount(Tail(t), FALSE)
    ELSE IF Head(t) \in Whitespace THEN SegmentCount(Tail(t), inWord)
    ELSE (IF inWord THEN 0 ELSE 1) + SegmentCount(Tail(t), TRUE)

\* s occurs in t as a contiguous piece.
Contains(t, s) ==
    \E i \in 1..(Len(t) - Len(s) + 1) : SubSeq(t, i, i + Len(s) - 1) = s

FourSentences == <<"a", ".", " ", "b", "!", " ", "c", "?", " ", "d", ".">>
ThreeOClock == <<"It", " ", "is", " ", "three", " ", "o'clock", ".">>
WhatTime == <<"what", " ", "time", " ", "is", " ", "it">>

\* The announcement of the mode with index i, written out.
ModeAnnouncement(i) ==
    CASE i = 0 -> <<"voice", " ", "mode">>
      [] i = 1 -> <<"capture", " ", "mode">>
      [] i = 2 -> <<"book", " ", "mode">>

\* The positions inside run() and what it calls, apart from speak.
RunPcs ==
    {"run_poll_back", "run_poll_main", "wp_low", "wp_high", "run_exit",
     "run_break", "run_action", "run_branch", "run_sleep", "listen",
     "listen_check1", "listen_check2", "listen_except", "listen_none",
     "voice_dispatch", "capture", "image_dispatch", "ai_wait"}

\* C1: whenever wait_press has returned, for either pin, it returned "hold"
\* exactly if the time between seeing the pin active and seeing it inactive
\* exceeds HOLD_TIME; a press of exactly HOLD_TIME is a tap.
C1_HoldIffLongerThanThreshold ==
    pressed # "none" =>
        /\ pressed \in {"tap", "hold"}
        /\ (pressed = "hold") <=> (elapsed > HOLD_TIME)
        /\ (elapsed = HOLD_TIME) => (pressed = "tap")

C1_Witness == pressed = "tap" /\ elapsed = HOLD_TIME /\ pin = BTN_MAIN

\* C2: the step run takes on a Tap moves mode_index from i to (i + 1) mod 3,
\* from 2 back to 0; so after k Taps from index 0 (k counted by the
\* announcement history while it is not full) the index is k mod 3, and
\* three Taps end at 0.
C2_TapAdvancesModulo ==
    /\ [][(pc = "run_branch" /\ action = "tap" /\ pc' # pc) =>
            /\ mode_index' = (mode_index + 1) % Len(modes)
            /\ (mode_index = Len(modes) - 1) => (mode_index' = 0)]_vars
    /\ [](Len(announced) \in 1..(MaxLog - 1) =>
            mode_index = (Len(announced) - 1) % Len(modes))

C2_Witness ==
    /\ op = "tap"
    /\ Len(announced) = 4
    /\ mode_index = 0

\* C3: mode_index is first assigned 0, is in 0..2 from then on, and no step
\* other than the Tap step of run changes it: not a Hold, whatever its
\* outcome, not a cancel press, not speech playback.
C3_OnlyTapChangesMode ==
    /\ [](mode_index \in -1..2)
    /\ [](pc \in RunPcs => mode_index \in 0..2)
    /\ [][mode_index' # mode_index =>
            \/ mode_index = -1 /\ mode_index' = 0
            \/ pc = "run_branch" /\ action = "tap"]_vars

C3_Witness ==
    /\ pc = "run_sleep"
    /\ op = "capture"
    /\ outcome = "cancel_poll"
    /\ mode_index = 1

\* C4 as stated: when a Tap's iteration ends, the announcement of the new
\* mode has been played.
C4_TapAnnouncementPlayed ==
    (pc = "run_sleep" /\ op = "tap") =>
        played = <<ModeAnnouncement(mode_index)>>

\* C4 amended: when a Tap's iteration ends, before the next poll, speak has
\* been called exactly once, with the new mode's name and " mode"; that
\* announcement has been played if speak saw no cancel input and no worker
\* failed to start, and is not even started only if the checkpoint saw the
\* cancel input or espeak failed to start; and the announce_mode calls since startup name the modes
\* in cyclic order (voice at startup, then capture, book, voice for three Taps).
C4_TapCallsSpeakWithNewMode ==
    /\ (pc = "run_sleep" /\ op = "tap") =>
          /\ opSpeaks = <<ModeAnnouncement(mode_index)>>
          /\ text = ModeAnnouncement(mode_index)
          /\ (outcome = "completed") =>
                (result /\ played = <<ModeAnnouncement(mode_index)>>)
          /\ (played # <<ModeAnnouncement(mode_index)>>) =>
                (played = <<>> /\ outcome \in {"cancel_checkpoint", "error"})
    /\ \A k \in 1..Len(announced) :
          announced[k] = ModeAnnouncement((k - 1) % 3)

C4_Witness ==
    /\ pc = "run_sleep"
    /\ op = "tap"
    /\ Len(announced) = 4
    /\ announced[2] = <<"capture", " ", "mode">>
    /\ announced[3] = <<"book", " ", "mode">>
    /\ announced[4] = <<"voice", " ", "mode">>
    /\ played = << <<"voice", " ", "mode">> >>

\* C5: a speak call that returns without having seen the cancel input and
\* without a playback error has started exactly the non-empty trimmed
\* segments of its text, in order, and returns True; a segment after the
\* first is started only when no worker of the one before it is running.
C5_UninterruptedPlaysAllInOrder ==
    /\ []((SpeakReturned /\ outcome = "completed") =>
            /\ result = TRUE
            /\ played = SplitSentences(text)
            /\ Len(played) = SegmentCount(text, FALSE)
            /\ \A k \in 1..Len(played) : IsSegment(played[k])
            /\ Words(Flatten(played)) = Words(text)
            /\ (text = FourSentences) =>
                  played = << <<"a">>, <<"b">>, <<"c">>, <<"d">> >>)
    /\ [][Len(played') > Len(played) =>
            /\ played' = Append(played, sentences[Len(played) + 1])
            /\ (Len(played) > 0) =>
                  (espeak # "running" /\ aplay # "running")]_vars

C5_Witness ==
    /\ SpeakReturned
    /\ outcome = "completed"
    /\ text = FourSentences
    /\ Len(played) = 4
    /\ result = TRUE

\* C6: a speak call in which the cancel input was observed returns False;
\* observed at a poll, the workers of the segment being played are killed;
\* the segments started are the first k of the text's segments, and none is
\* started after the cancel was observed.
C6_CancelStopsPlayback ==
    /\ []((SpeakReturned /\ outcome \in Cancelled) =>
            /\ result = FALSE
            /\ played = SubSeq(SplitSentences(text), 1, Len(played))
            /\ Len(played) =
                  (IF outcome = "cancel_poll" THEN idx ELSE idx - 1)
            /\ (outcome = "cancel_poll") =>
                  (aplay = "killed" /\ espeak \in {"killed", "done"}))
    /\ [][(outcome \in Cancelled) => (Len(played') <= Len(played))]_vars

C6_Witness ==
    /\ SpeakReturned
    /\ outcome = "cancel_poll"
    /\ text = FourSentences
    /\ played = << <<"a">>, <<"b">> >>
    /\ result = FALSE

\* C7: the dispatch step taken with interrupt_flag set, in any mode, issues
\* no gateway call and calls speak for no response: the iteration ends.
C7_InterruptedBeforeAskSkipsGateway ==
    [][(pc \in {"voice_dispatch", "image_dispatch"} /\ interrupt_flag
          /\ pc' # pc) =>
            /\ aiCalls' = aiCalls
            /\ prompt' = prompt
            /\ opSpeaks' = opSpeaks
            /\ pc' = "run_sleep"]_vars

C7_Witness ==
    /\ pc = "voice_dispatch"
    /\ interrupt_flag
    /\ op = "voice"

\* A string without a word: only whitespace and terminators.
NoWords(t) == \A i \in 1..Len(t) : t[i] \in Terminators \cup Whitespace

\* C8: every speak call on a text without a word (the empty string among
\* them) starts no worker and returns True, whatever the cancel input does.
C8_NoSentenceIsNoOp ==
    /\ []((SpeakReturned /\ NoWords(text)) =>
            /\ result = TRUE
            /\ played = <<>>
            /\ speech_process = "None"
            /\ outcome = "completed")
    /\ [][(pc \in SpeakPcs /\ NoWords(text)) =>
            /\ (espeak' = "running") => (espeak = "running")
            /\ (aplay' = "running") => (aplay = "running")]_vars

C8_Witness ==
    /\ SpeakReturned
    /\ text = <<>>
    /\ result = TRUE
    /\ gpio[BTN_BACK] = "HIGH"

\* C9: when a Voice Hold ends with a transcript, a gateway response and an
\* uninterrupted playback, one gateway call was issued, its prompt contains
\* the transcript, speak was called with "Listening" and then with exactly
\* the response, and a response of one sentence was played as one segment.
C9_VoiceHoldAsksOnceAndSpeaksAnswer ==
    (pc = "run_sleep" /\ op = "voice" /\ Truthy(transcript) /\ ans # None
        /\ outcome = "completed") =>
        /\ aiCalls = 1
        /\ Contains(prompt, transcript)
        /\ opSpeaks = << <<"Listening">>, ans >>
        /\ text = ans
        /\ result = TRUE
        /\ (SegmentCount(ans, FALSE) = 1) => (Len(played) = 1)
        /\ (ans = ThreeOClock) =>
              played = << <<"It", " ", "is", " ", "three", " ", "o'clock">> >>

C9_Witness ==
    /\ pc = "run_sleep"
    /\ op = "voice"
    /\ transcript = WhatTime
    /\ ans = ThreeOClock
    /\ outcome = "completed"
    /\ aiCalls = 1
    /\ Len(played) = 1

\* C10 as stated: when a Capture or Book Hold ends with no frame (no camera,
\* or a failed read), a message has been spoken and no gateway call issued.
C10_CaptureFailureIsSpoken ==
    (pc = "run_sleep" /\ op \in {"capture", "book"} /\ img = None) =>
        /\ opSpeaks # <<>>
        /\ aiCalls = 0

\* ------------------------------------------------------------ C11
Holds == {"voice", "capture", "book"}

\* C11 as stated: a gateway failure during a Hold is not fatal; the operation
\* never leaves the main loop for cleanup, and the loop returns to idle.
C11_GatewayFailureIsNotFatal ==
    (op \in Holds) => (pc \notin {"cleanup", "exited"})

\* ------------------------------------------------------------ C12
Sorry == <<"Sorry", " ", "I", " ", "did", " ", "not", " ", "understand">>

\* The number of calls of speak(t) in a log of calls.
RECURSIVE Count(_, _)
Count(log, t) ==
    IF log = <<>> THEN 0
    ELSE (IF Head(log) = t THEN 1 ELSE 0) + Count(Tail(log), t)

\* C12: when recognition fails in a voice Hold that was not interrupted,
\* listen calls speak once with the failure message and returns None, without
\* listening again; the message is played as one segment when that speak
\* completes; the Hold then ends with no gateway call.
C12_RecognitionFailureSpokenOnce ==
    /\ [][(pc = "listen_except" /\ ~interrupt_flag /\ pc' # pc) =>
            /\ pc' = "speak"
            /\ text' = Sorry
            /\ speakRet' = "listen_none"
            /\ opSpeaks' = Append(opSpeaks, Sorry)]_vars
    /\ [](pc = "listen_none" => (op = "voice" /\ aiCalls = 0))
    /\ []((pc = "listen_none" /\ text = Sorry /\ outcome = "completed") =>
            played = << Sorry >>)
    /\ [][(pc = "listen_none" /\ pc' # pc) =>
            (pc' = "voice_dispatch" /\ transcript' = None)]_vars
    /\ []((op = "voice" /\ Count(opSpeaks, Sorry) > 0) =>
            /\ Count(opSpeaks, Sorry) = 1
            /\ Count(opSpeaks, <<"Listening">>) <= 1
            /\ aiCalls = 0
            /\ pc \in SpeakPcs \cup {"listen_none", "voice_dispatch",
                                    "run_sleep"}
            /\ (pc \in {"voice_dispatch", "run_sleep"} => transcript = None))

C12_Witness ==
    /\ pc = "run_sleep"
    /\ op = "voice"
    /\ opSpeaks = << <<"Listening">>, Sorry >>
    /\ played = << Sorry >>
    /\ outcome = "completed"
    /\ aiCalls = 0

\* ------------------------------------------------------------ C13
\* C13 as stated: when the wait for the speech-to-text result or the camera
\* capture ends with Back asserted, interrupt_flag is true and the operation
\* unwinds: listen returns no transcript and capture yields no frame to send.
C13_BackDuringAcquisitionSetsFlag ==
    /\ [][(pc = "listen_check2" /\ gpio[BTN_BACK] = "HIGH" /\ pc' # pc) =>
            (interrupt_flag'
                /\ (pc' = "voice_dispatch" => transcript' = None))]_vars
    /\ [][(pc = "capture" /\ gpio[BTN_BACK] = "HIGH" /\ pc' # pc) =>
            (interrupt_flag' /\ ~ShouldAsk(img', interrupt_flag'))]_vars

\* ------------------------------------------------------------ C14
\* C14 as stated: the main loop decides to exit (its idle poll sees Back
\* high and calls wait_press(BTN_BACK)) only for a Back press that began while
\* the loop was idle, never for one that began while an operation was in
\* flight.
C14_ExitOnlyFromIdlePress ==
    [][(pc = "run_poll_back" /\ pc' = "wp_low") => (backBegan # "busy")]_vars

\* ------------------------------------------------------------ C15
\* C15: within a Hold-triggered operation, once interrupt_flag is true it
\* stays true until control is back at the main loop's sleep, and from then
\* on no speech segment is started, speak is not called and no gateway call
\* is issued.
C15_InterruptedHoldEndsSilently ==
    [][(interrupt_flag /\ op \in Holds /\ pc # "run_sleep") =>
          /\ interrupt_flag'
          /\ op' = op
          /\ played' = played
          /\ opSpeaks' = opSpeaks
          /\ aiCalls' = aiCalls
          /\ pc' \notin {"cleanup", "exited", "ai_wait"}]_vars

C15_Witness ==
    /\ pc = "run_sleep"
    /\ op = "voice"
    /\ interrupt_flag
    /\ outcome = "cancel_poll"
    /\ opSpeaks = << <<"Listening">> >>
    /\ aiCalls = 0

\* ------------------------------------------------------------ C16
\* C16 as stated: speak starts a segment's workers only when no audio worker
\* is alive, so at most one espeak/aplay pair runs at any time.
C16_AtMostOnePlayback ==
    [][(pc = "speak_loop" /\ pc' = "speak_spawn_aplay") =>
          (espeak # "running" /\ aplay # "running")]_vars

\* ------------------------------------------------------------ C17
\* C17 as stated: whenever speak has returned, no audio worker is running,
\* whether the controller still holds its handle or not.
C17_NoWorkerOutlivesSpeak ==
    (pc \notin SpeakPcs) => (espeak # "running" /\ aplay # "running")

\* ------------------------------------------------------------ C18
\* The places of control a Hold-triggered operation passes through.
HoldPcs ==
    SpeakPcs \cup {"listen", "listen_check1", "listen_check2", "listen_except",
                   "listen_none", "voice_dispatch", "capture",
                   "image_dispatch", "ai_wait", "run_sleep", "cleanup",
                   "exited"}

CaptureActive == pc = "capture"
AiActive == pc = "ai_wait"
PlaybackActive == aplay = "running"

\* C18: capture, the gateway call and speech playback are never active
\* together (sound is produced only while speak is in its poll loop), and
\* while a Hold is in progress control is never at a place that samples the
\* Main input: whatever Main does, the operation, the mode, the classified
\* action and wait_press's locals stay as they are and at most one gateway
\* call is issued.
C18_OperationsAreSequential ==
    /\ [](PlaybackActive => (pc = "speak_poll" /\ speech_process = "espeak"))
    /\ [](~(CaptureActive /\ AiActive) /\ ~(CaptureActive /\ PlaybackActive)
            /\ ~(AiActive /\ PlaybackActive))
    /\ [](op \in Holds => (pc \in HoldPcs /\ aiCalls <= 1))
    /\ [][(op \in Holds /\ pc # "run_sleep") =>
            /\ op' = op
            /\ mode_index' = mode_index
            /\ action' = action
            /\ <<pin, elapsed, pressed>>' = <<pin, elapsed, pressed>>]_vars

C18_Witness ==
    /\ op = "voice"
    /\ pc = "speak_poll"
    /\ aplay = "running"
    /\ aiCalls = 1
    /\ action = "hold"
    /\ gpio[BTN_MAIN] = "HIGH"

\* ------------------------------------------------------------ C19
\* C19: interrupt_flag is false when the classified Main press is dispatched
\* and when the Tap announcement or the Hold action begins; it is false
\* after the entry of speak and of listen; and a frame captured in an
\* operation is never withheld from the gateway by a flag that was set before
\* the operation began.
C19_FlagClearAtOperationStart ==
    /\ [](pc = "run_branch" => ~interrupt_flag)
    /\ [][(pc = "run_branch" /\ pc' # pc) =>
            (~interrupt_flag' /\ op' \in {"tap"} \cup Holds)]_vars
    /\ [][(pc \in {"speak", "listen"} /\ pc' # pc) => ~interrupt_flag']_vars
    /\ [](pc \in {"capture", "image_dispatch", "listen_check2"} =>
            ~interrupt_flag)

\* The last speak call of the previous operation was cancelled in its poll
\* loop (its handle is still held), and the new Tap is being dispatched.
C19_Witness ==
    /\ pc = "run_branch"
    /\ action = "tap"
    /\ speech_process = "espeak"
    /\ aplay = "killed"
    /\ ~interrupt_flag

\* ------------------------------------------------------------ C20
\* The places of control between the idle poll that saw Back and the end.
ExitPcs == SpeakPcs \cup {"wp_low", "wp_high", "run_exit", "run_break",
                          "cleanup", "exited"}

\* The number of steps of the thread that are left, at most, on the exit
\* path.
ExitRank ==
    CASE pc = "wp_low" -> 100
      [] pc = "wp_high" -> 99
      [] pc = "run_exit" -> 98
      [] pc = "speak" -> 97
      [] pc = "speak_loop" -> 10 + 3 * (Len(sentences) + 1 - idx)
      [] pc = "speak_spawn_aplay" -> 9 + 3 * (Len(sentences) + 1 - idx)
      [] pc = "speak_poll" -> 8 + 3 * (Len(sentences) + 1 - idx)
      [] pc = "run_break" -> 5
      [] pc = "cleanup" -> 4
      [] OTHER -> 0

ProcessEnded == pc \in {"exit1", "crashed", "exited"}

\* C21 as stated: on every shutdown path the process ends with the GPIO
\* channels released, the camera released and no speech handle held.
C21_CleanupOnEveryShutdownPath ==
    ProcessEnded =>
        (gpio_setup = FALSE /\ camera # "open" /\ speech_process = "None")

\* ------------------------------------------------------------ C22
CameraUnavailable ==
    <<"Camera is not available. Please check your camera connection.">>

\* C22 (desktop variant): when a gateway call raises, the handler's response
\* is the error message built from the exception, it is the last text
\* spoken, no further gateway call follows in that command (voice and scene
\* description make exactly one), is_running stays true and the loop goes
\* back to polling the keyboard, where a new command can start.
C22_DesktopGatewayFailureIsSpoken ==
    /\ [](desk.failedAt > 0 =>
            /\ \E e \in DeskErrors :
                  desk.response = ErrorPrefix(desk.cmd) \o e
            /\ desk.said # <<>>
            /\ desk.said[Len(desk.said)] = desk.response
            /\ desk.calls = desk.failedAt
            /\ (desk.cmd \in {"v", "c"} => desk.calls = 1)
            /\ desk.calls <= 2
            /\ desk.is_running
            /\ desk.pc \in {"sleep", "idle"}
            /\ (desk.pc = "idle" => ENABLED DeskVoice))
    /\ [][(desk.failedAt > 0 /\ desk.pc = "sleep") =>
            (desk'.pc = "idle" /\ desk'.is_running
                /\ desk'.calls = desk.calls)]_vars

C22_Witness ==
    /\ desk.pc = "idle"
    /\ desk.cmd = "v"
    /\ desk.failedAt = 1
    /\ desk.response = <<"Error communicating with Gemini: ", "timeout">>
    /\ desk.is_running

\* ------------------------------------------------------------ C23
\* C23 (desktop variant): a gateway call is issued only after the handler
\* acquired its input: voice after one listen that returned a transcript,
\* scene description and book reading with a camera and after one capture
\* that returned a frame.  With nothing acquired the handler returns without
\* a call; without a camera the two camera handlers only speak the
\* camera-unavailable message, and neither listen nor capture.
C23_DesktopNoCallWithoutAcquisition ==
    /\ [](desk.calls > 0 =>
            /\ (desk.cmd = "v" =>
                  (Truthy(desk.text) /\ desk.listens = 1
                      /\ desk.captures = 0))
            /\ (desk.cmd # "v" =>
                  (desk.cmd \in {"c", "b"} /\ desk.camera = "open"
                      /\ desk.result = Frame /\ desk.captures = 1)))
    /\ []((desk.cmd \in {"c", "b"} /\ desk.camera = "None") =>
            /\ desk.said = << CameraUnavailable >>
            /\ desk.listens = 0
            /\ desk.captures = 0
            /\ desk.calls = 0
            /\ desk.pc \in {"sleep", "idle"})
    /\ [][(desk.pc = "send" /\ ~Truthy(Acquired(desk))) =>
            (desk'.pc = "sleep" /\ desk'.calls = 0
                /\ desk'.said = desk.said)]_vars

C23_Witness ==
    /\ desk.pc = "sleep"
    /\ desk.cmd = "c"
    /\ desk.camera = "open"
    /\ desk.captures = 1
    /\ desk.result = None
    /\ desk.calls = 0

\* ------------------------------------------------------------ C24
\* A classified Main event is being processed.
Operating ==
    \/ pc = "run_action"
    \/ op \in {"main", "tap"} \cup Holds /\ pc \notin {"cleanup", "exited"}

\* How far a place of control is from the idle poll.
Stage(p) ==
    CASE p = "run_action" -> 20
      [] p = "run_branch" -> 19
      [] p \in {"listen", "capture"} -> 18
      [] p = "listen_check1" -> 16
      [] p = "listen_check2" -> 15
      [] p = "listen_except" -> 14
      [] p = "listen_none" -> 12
      [] p \in {"voice_dispatch", "image_dispatch"} -> 11
      [] p = "ai_wait" -> 10
      [] p = "run_sleep" -> 8
      [] OTHER -> 0

\* The steps speak has left, at most, before it returns.
SpeakRank ==
    CASE pc = "speak" -> 90
      [] pc = "speak_loop" -> 10 + 3 * (Len(sentences) + 1 - idx)
      [] pc = "speak_spawn_aplay" -> 9 + 3 * (Len(sentences) + 1 - idx)
      [] pc = "speak_poll" -> 8 + 3 * (Len(sentences) + 1 - idx)
      [] OTHER -> 0

OpRank ==
    IF pc \in SpeakPcs THEN 100 * Stage(speakRet) + SpeakRank
    ELSE 100 * Stage(pc)

\* C24: while a classified Main event is processed the thread is never
\* stuck: it is at the entry of speak (which nothing guards), or it can take
\* a step (at the gateway call: the call can return), or speak's poll loop
\* waits for an audio worker that can exit; no button is waited for.  Every step brings it nearer to
\* the idle poll, which is where it arrives, unless the gateway call raises
\* (the only step that leaves the loop).
C24_MainEventReturnsToIdle ==
    /\ [](Operating =>
            \/ pc = "speak"
            \/ pc # "ai_wait" /\ ENABLED Program
            \/ pc = "ai_wait" /\ ENABLED AiReturns
            \/ pc = "speak_poll" /\ ENABLED (EspeakExits \/ AplayExits))
    /\ [](Operating => (OpRank > 0 /\ OpRank < 2100))
    /\ [][(Operating /\ pc' # pc) =>
            \/ OpRank' < OpRank /\ (Operating' \/ pc' = "run_poll_back")
            \/ pc = "ai_wait" /\ pc' = "cleanup"]_vars
    /\ [][(Operating /\ pc' = "run_poll_back") =>
            (pc = "run_sleep" /\ op' = "none")]_vars

C24_Witness ==
    /\ pc = "run_sleep"
    /\ op = "book"
    /\ aiCalls = 1
    /\ outcome = "completed"
    /\ gpio[BTN_MAIN] = "LOW"
    /\ gpio[BTN_BACK] = "LOW"

\* ------------------------------------------------------------ C25
\* C25: when the idle poll finds Back and Main both active, its step is the
\* call wait_press(BTN_BACK) on the exit path; from there on the Main input
\* is not read, the Main press is not classified into an action, the mode
\* stays as it is and no Tap or Hold starts; the only text spoken is the
\* exit message.
C25_BackHasPriorityOverMain ==
    /\ [][(pc = "run_poll_back" /\ gpio[BTN_BACK] = "HIGH"
              /\ gpio[BTN_MAIN] = "HIGH" /\ pc' # pc) =>
            /\ pc' = "wp_low"
            /\ pin' = BTN_BACK
            /\ op' = "exit"
            /\ action' = action
            /\ mode_index' = mode_index]_vars
    /\ [](op = "exit" =>
            /\ pin = BTN_BACK
            /\ pc \notin {"run_poll_main", "run_action", "run_branch"}
            /\ (pc \in SpeakPcs =>
                  (text = <<"Exiting", " ", "assistant">>
                      /\ speakRet = "run_break")))
    /\ [][(op = "exit" /\ pc' # pc) =>
            /\ pc' \in ExitPcs
            /\ action' = action
            /\ mode_index' = mode_index
            /\ announced' = announced
            /\ (pressed' # pressed => (pc = "wp_high" /\ pc' = "run_exit"))]_vars

\* Right after the poll: wait_press(BTN_BACK) is called with both inputs
\* active.
C25_Witness ==
    /\ op = "exit"
    /\ pc = "wp_low"
    /\ pin = BTN_BACK
    /\ gpio[BTN_BACK] = "HIGH"
    /\ gpio[BTN_MAIN] = "HIGH"
    /\ mode_index = 1

\* ------------------------------------------------------------ C26
\* C26: wait_press starts its clock when it first reads the pin HIGH,
\* whatever the press has lasted until then, and classifies by that clock
\* alone; while an operation is in progress the clock does not run.  So a
\* Main press that began during an operation is classified by the time it
\* stays held after the loop resumed polling (the witness: a press known to
\* have lasted longer than HOLD_TIME, classified as a Tap).
C26_PressTimedFromFirstObservation ==
    /\ [][(pc = "wp_low" /\ pc' = "wp_high") => elapsed' = 0]_vars
    /\ [][(pc = "wp_high" /\ pc' # pc) =>
            pressed' = (IF elapsed > HOLD_TIME THEN "hold" ELSE "tap")]_vars
    /\ [][InFlight => (elapsed' = elapsed /\ pressed' = pressed)]_vars
    /\ [](mainLead \in {0, CANCEL_SLEEP})
    /\ [](mainLead > 0 =>
            pc \notin {"main", "init_modes", "init_announce", "exit1",
                       "crashed"})

C26_Witness ==
    /\ pc = "run_action"
    /\ pin = BTN_MAIN
    /\ pressed = "tap"
    /\ mainLead = CANCEL_SLEEP
    /\ mainLead + elapsed > HOLD_TIME
    /\ gpio[BTN_MAIN] = "LOW"

====
